---- MODULE Spec2Model ----
(***************************************************************************)
(* A model of chashmap (src/src/chashmap.c): a separate-chaining hash map  *)
(* over raw byte keys and values.  The heap of HashMapEntry nodes, their   *)
(* next links and the bucket array are modelled explicitly; every malloc   *)
(* and calloc may fail.                                                    *)
(***************************************************************************)
EXTENDS Integers, Sequences, FiniteSets, TLC

\* ------------------------------------------------------------------ bounds
\* Number of HashMapEntry nodes the heap can hold; malloc of a node fails
\* when all are live.
MaxNodes == 2
\* Largest bucket array calloc can deliver; a larger request fails.
MaxCap == 32
\* Width in bits of the digest (uint64_t in the source, scaled down).
HashBits == 16
\* Successful removals tallied in one lifetime of the Map.
MaxRemovals == 2
\* Width in bits of size_t (64 in the source, scaled down).
SizeBits == 4

\* ------------------------------------------------------- program constants
DEFAULT_INITIAL_CAPACITY == 16
\* DEFAULT_LOAD_FACTOR 0.75f as the fraction <<numerator, denominator>>.
DEFAULT_LOAD_FACTOR == <<3, 4>>

\* ------------------------------------------------------------------ inputs
\* Key buffers the callers pass (key_data, key_size = Len): <<1>> is a proper
\* prefix of <<1, 2>>, and <<1, 2>>, <<2, 1>> have the same bytes in another order.
Keys == {<<1>>, <<1, 2>>, <<2, 1>>}
\* Value buffers the callers pass (val_data, val_size = Len).
Values == {<<7>>, <<8, 9>>}
\* Argument lists <<capacity, hash_func, load_factor>> of hashmap_init, the
\* load factor as a fraction <<numerator, denominator>>: the call of main.c
\* (all defaults: 16 buckets, default_hash, 0.75), the default hasher on a
\* table that starts with one bucket, and the README's custom hasher on
\* three buckets with a load factor of 1/2.
InitArgs == {<<0, "NULL", <<0, 1>>>>,
             <<1, "NULL", <<0, 1>>>>,
             <<3, "custom_point_hash", <<1, 2>>>>}

\* The float that is not a number, as the fraction 0 / 0: every comparison
\* with it is false.
NaN == <<0, 0>>

\* A null data pointer (no buffer): not a byte sequence.
NullBuf == <<-1>>
\* Node addresses are 1 .. MaxNodes; 0 is the null HashMapEntry pointer.
Nodes == 1 .. MaxNodes

\* ----------------------------------------------------- 64-bit style arithmetic
RECURSIVE Pow2(_)
Pow2(n) == IF n = 0 THEN 1 ELSE 2 * Pow2(n - 1)

HashMod == Pow2(HashBits)

\* h << n in HashBits-wide unsigned arithmetic.
Shl(h, n) == IF n >= HashBits THEN 0 ELSE (h % Pow2(HashBits - n)) * Pow2(n)
\* h >> n.
Shr(h, n) == h \div Pow2(n)

RECURSIVE Xor(_, _)
Xor(a, b) ==
    IF a = 0 THEN b
    ELSE IF b = 0 THEN a
    ELSE (((a % 2) + (b % 2)) % 2) + 2 * Xor(a \div 2, b \div 2)

\* One round of the loop body of default_hash for byte c.
HashStep(hash, c) ==
    LET h1 == (hash + c) % HashMod
        h2 == (h1 + Shl(h1, 10)) % HashMod
    IN  Xor(h2, Shr(h2, 6))

RECURSIVE HashLoop(_, _, _, _)
HashLoop(hash, data, i, nbytes) ==
    IF i >= nbytes THEN hash
    ELSE HashLoop(HashStep(hash, data[i + 1]), data, i + 1, nbytes)

\* Jenkins' one-at-a-time hash.
default_hash(data, nbytes) ==
    LET h0 == HashLoop(0, data, 0, nbytes)
        h1 == (h0 + Shl(h0, 3)) % HashMod
        h2 == Xor(h1, Shr(h1, 11))
    IN  (h2 + Shl(h2, 15)) % HashMod

\* The pairs <<key, default_hash of the key>> for the keys the callers use,
\* computed once.
DefaultDigests == {<<k, default_hash(k, Len(k))>> : k \in Keys}

\* memcmp(data1, data2, nbytes) == 0.
default_eq(data1, data2, nbytes) ==
    \A i \in 1 .. nbytes : data1[i] = data2[i]

\* The README's custom hash: x + 31 * y over the first two cells of the key,
\* 0 when the key is shorter than two cells.
custom_point_hash(data, nbytes) ==
    IF nbytes < 2 THEN 0 ELSE (data[1] + 31 * data[2]) % HashMod

\* Call through map->hash_func.
CallHash(hf, data, nbytes) ==
    IF hf = "custom_point_hash" THEN custom_point_hash(data, nbytes)
    ELSE IF data \in Keys /\ nbytes = Len(data)
         THEN (CHOOSE p \in DefaultDigests : p[1] = data)[2]
    ELSE default_hash(data, nbytes)

\* Call through map->eq_func.
CallEq(eq, data1, data2, nbytes) == default_eq(data1, data2, nbytes)

\* ------------------------------------------------------------------- state
VARIABLES
    buckets,      \* map->buckets: NullBuf, or the sequence of chain heads
    capacity,     \* map->capacity
    size,         \* map->size
    hash_func,    \* map->hash_func
    eq_func,      \* map->eq_func
    load_factor,  \* map->load_factor as <<numerator, denominator>>
    heap,         \* the HashMapEntry nodes, by address
    last,         \* the last call and what it returned
    written,      \* per key: the value of its last successful insert, if not removed since
    ever,         \* tally: the keys inserted successfully since hashmap_init
    news,         \* tally: the successful inserts that created an entry
    removals      \* tally: the successful removals

mapvars == <<buckets, capacity, size, hash_func, eq_func, load_factor, heap>>
tally == <<ever, news, removals>>
vars == <<buckets, capacity, size, hash_func, eq_func, load_factor, heap, last, written,
          ever, news, removals>>

\* A node that is not allocated.
FreeNode == [live |-> FALSE, key |-> NullBuf, key_size |-> 0,
             value |-> NullBuf, value_size |-> 0, next |-> 0]

\* No association recorded for a key.
Absent == NullBuf

\* The HashMap struct as one record.
Map == [buckets |-> buckets, capacity |-> capacity, size |-> size,
        hash_func |-> hash_func, eq_func |-> eq_func,
        load_factor |-> load_factor, heap |-> heap]

NoCall == [op |-> "none", ret |-> 0, out |-> NullBuf, grew |-> "no", path |-> "none"]

Init ==
    /\ buckets = NullBuf
    /\ capacity = 0
    /\ size = 0
    /\ hash_func = "NULL"
    /\ eq_func = "NULL"
    /\ load_factor = <<0, 1>>
    /\ heap = [n \in Nodes |-> FreeNode]
    /\ last = NoCall
    /\ written = [k \in Keys |-> Absent]
    /\ ever = {}
    /\ news = 0
    /\ removals = 0

Initialized == buckets # NullBuf

\* What the memcpy of get reads from a null value pointer: the process is
\* killed, or the copy holds arbitrary bytes of the recorded length.
Segv == <<-2>>
NullReadOutcomes(n) == {Segv} \cup {v \in Values : Len(v) = n}

\* The process is running (not killed by a fault).
Alive == last.out # Segv

\* calloc(n, sizeof(HashMapEntry *)): fails when asked to, or when n is beyond
\* what the allocator can deliver.
CallocBuckets(n, ok) ==
    IF ok /\ n <= MaxCap THEN [i \in 1 .. n |-> 0] ELSE NullBuf

\* ------------------------------------------------------------ chain walks
\* hash_val % map->capacity: the 0-based bucket index of a key.
BucketIndex(m, key_data, key_size) ==
    CallHash(m.hash_func, key_data, key_size) % m.capacity

\* Faulty variant of FindEntry: an entry matches when its key is a prefix of
\* the requested key.
RECURSIVE FindEntry_PrefixMatch(_, _, _, _)
FindEntry_PrefixMatch(m, entry, key_data, key_size) ==
    IF entry = 0 THEN 0
    ELSE IF /\ m.heap[entry].key_size <= key_size
            /\ CallEq(m.eq_func, m.heap[entry].key, key_data, m.heap[entry].key_size)
         THEN entry
         ELSE FindEntry_PrefixMatch(m, m.heap[entry].next, key_data, key_size)

\* The while (entry) loops of insert and get: the first node from entry on
\* whose key matches, or 0.
RECURSIVE FindEntry(_, _, _, _)
FindEntry(m, entry, key_data, key_size) ==
    IF entry = 0 THEN 0
    ELSE IF /\ m.heap[entry].key_size = key_size
            /\ CallEq(m.eq_func, m.heap[entry].key, key_data, key_size)
         THEN entry
         ELSE FindEntry(m, m.heap[entry].next, key_data, key_size)

\* The while (entry) loop of remove: <<entry, prev>> of the first match, or
\* <<0, prev>> when the chain ends.
RECURSIVE FindWithPrev(_, _, _, _, _)
FindWithPrev(m, entry, prev, key_data, key_size) ==
    IF entry = 0 THEN <<0, prev>>
    ELSE IF /\ m.heap[entry].key_size = key_size
            /\ CallEq(m.eq_func, m.heap[entry].key, key_data, key_size)
         THEN <<entry, prev>>
         ELSE FindWithPrev(m, m.heap[entry].next, entry, key_data, key_size)

\* ------------------------------------------------------------ entry helpers
\* malloc(sizeof(HashMapEntry)): the lowest free address, 0 when none is free.
MallocNode(h) ==
    LET free == {n \in Nodes : ~h[n].live}
    IN  IF free = {} THEN 0 ELSE CHOOSE n \in free : \A o \in free : n <= o

\* memcpy of the first n bytes of a buffer into a fresh one.
CopyBytes(data, n) == SubSeq(data, 1, n)

\* hashmap_create_entry: the new node's address (0 on failure) and the heap.
\* fail names the malloc that fails: "entry", "key", "value" or "none".
hashmap_create_entry(h, key, key_size, val, val_size, fail) ==
    LET entry == IF fail = "entry" THEN 0 ELSE MallocNode(h)
    IN  IF entry = 0 THEN [entry |-> 0, heap |-> h]
        ELSE IF fail = "key" THEN [entry |-> 0, heap |-> h]
        ELSE IF fail = "value" THEN [entry |-> 0, heap |-> h]
        ELSE [entry |-> entry,
              heap |-> [h EXCEPT ![entry] =
                           [live |-> TRUE,
                            key |-> CopyBytes(key, key_size), key_size |-> key_size,
                            value |-> CopyBytes(val, val_size), value_size |-> val_size,
                            next |-> 0]]]

\* hashmap_free_entry.
hashmap_free_entry(h, entry) ==
    IF entry # 0 THEN [h EXCEPT ![entry] = FreeNode] ELSE h

\* ------------------------------------------------------------------- resize
\* Faulty variant of the inner loop: entry->next is read after the node has
\* been relinked, so the walk follows the new chain and not the old one.
RECURSIVE RehashChain_NextAfterRelink(_, _, _, _, _)
RehashChain_NextAfterRelink(h, new_buckets, entry, hf, new_capacity) ==
    IF entry = 0 THEN [heap |-> h, buckets |-> new_buckets]
    ELSE LET new_index == CallHash(hf, h[entry].key, h[entry].key_size) % new_capacity
         IN  RehashChain_NextAfterRelink(
                 [h EXCEPT ![entry].next = new_buckets[new_index + 1]],
                 [new_buckets EXCEPT ![new_index + 1] = entry],
                 new_buckets[new_index + 1], hf, new_capacity)

\* Faulty variant of the inner loop: the index is taken modulo the capacity
\* the Map has had so far, half the new one.
RECURSIVE RehashChain_OldCapacity(_, _, _, _, _)
RehashChain_OldCapacity(h, new_buckets, entry, hf, new_capacity) ==
    IF entry = 0 THEN [heap |-> h, buckets |-> new_buckets]
    ELSE LET next == h[entry].next
             new_index == CallHash(hf, h[entry].key, h[entry].key_size)
                             % (new_capacity \div 2)
         IN  RehashChain_OldCapacity(
                 [h EXCEPT ![entry].next = new_buckets[new_index + 1]],
                 [new_buckets EXCEPT ![new_index + 1] = entry],
                 next, hf, new_capacity)

\* The inner while loop of hashmap_resize over one old chain.
RECURSIVE RehashChain(_, _, _, _, _)
RehashChain(h, new_buckets, entry, hf, new_capacity) ==
    IF entry = 0 THEN [heap |-> h, buckets |-> new_buckets]
    ELSE LET next == h[entry].next
             new_index == CallHash(hf, h[entry].key, h[entry].key_size) % new_capacity
         IN  RehashChain([h EXCEPT ![entry].next = new_buckets[new_index + 1]],
                         [new_buckets EXCEPT ![new_index + 1] = entry],
                         next, hf, new_capacity)

\* The outer for loop of hashmap_resize, from old bucket i on.
RECURSIVE RehashFrom(_, _, _, _, _)
RehashFrom(m, h, new_buckets, i, new_capacity) ==
    IF i >= m.capacity THEN [heap |-> h, buckets |-> new_buckets]
    ELSE LET r == RehashChain(h, new_buckets, m.buckets[i + 1], m.hash_func, new_capacity)
         IN  RehashFrom(m, r.heap, r.buckets, i + 1, new_capacity)

\* hashmap_resize(map, new_capacity), the calloc succeeding or not.
hashmap_resize(m, new_capacity, ok) ==
    IF new_capacity < 1 THEN [ret |-> -1, map |-> m]
    ELSE LET new_buckets == CallocBuckets(new_capacity, ok)
         IN  IF new_buckets = NullBuf THEN [ret |-> -1, map |-> m]
             ELSE LET r == RehashFrom(m, m.heap, new_buckets, 0, new_capacity)
                  IN  [ret |-> 0,
                       map |-> [m EXCEPT !.buckets = r.buckets, !.heap = r.heap,
                                         !.capacity = new_capacity]]

\* current_load >= map->load_factor, with current_load = size / capacity.  The
\* source divides in single precision; for the sizes and capacities of this
\* model the quotient is the correctly rounded fraction, and the comparison
\* is that of the fractions.
LoadReached(m) ==
    /\ m.load_factor # NaN
    /\ m.size * m.load_factor[2] >= m.load_factor[1] * m.capacity

\* hashmap_init(map, cap, hf, eq = NULL, lf), the bucket allocation succeeding
\* or not.  Called on a Map that holds no bucket array (the documented
\* precondition: destroy first).
hashmap_init(cap, hf, lf, ok) ==
    LET c == IF cap = 0 THEN DEFAULT_INITIAL_CAPACITY ELSE cap
        l == IF lf # NaN /\ lf[1] <= 0 THEN DEFAULT_LOAD_FACTOR ELSE lf
        b == CallocBuckets(c, ok)
    IN  /\ ~Initialized /\ Alive
        /\ capacity' = c
        /\ size' = 0
        /\ hash_func' = (IF hf # "NULL" THEN hf ELSE "default_hash")
        /\ eq_func' = "default_eq"
        /\ load_factor' = l
        /\ buckets' = b
        /\ last' = [NoCall EXCEPT !.op = "init", !.ret = IF b = NullBuf THEN -1 ELSE 0]
        /\ written' = [k \in Keys |-> Absent]
        /\ UNCHANGED heap

\* ------------------------------------------------------------------- insert
\* What hashmap_insert makes of resize_status: a failure is only logged.
GrowResult(rs) ==
    [grew |-> IF rs.ret = 0 THEN "ok" ELSE "failed", map |-> rs.map]

\* Faulty variant of the grow step: the resize asks for the capacity the Map
\* has, not twice as much.
GrowStep_SameCapacity(m, resize_ok) ==
    IF ~LoadReached(m) THEN [grew |-> "no", map |-> m]
    ELSE GrowResult(hashmap_resize(m, m.capacity, resize_ok))

\* Faulty variant of the grow step: an empty Map of two buckets or more is
\* resized to half its capacity.
GrowStep_ShrinkWhenEmpty(m, resize_ok) ==
    IF LoadReached(m) THEN GrowResult(hashmap_resize(m, m.capacity * 2, resize_ok))
    ELSE IF m.capacity >= 2 /\ m.size = 0
         THEN GrowResult(hashmap_resize(m, m.capacity \div 2, TRUE))
         ELSE [grew |-> "no", map |-> m]

\* The grow step of hashmap_insert: resize to twice the capacity when the
\* load factor is reached, and go on with the Map as it is when that fails.
GrowStep(m, resize_ok) ==
    IF ~LoadReached(m) THEN [grew |-> "no", map |-> m]
    ELSE GrowResult(hashmap_resize(m, m.capacity * 2, resize_ok))

\* Faulty variant of the update branch: entry->value_size is not assigned.
UpdateEntry_StaleSize(g, entry, val_data, val_size, fail) ==
    IF fail = "value"
    THEN [ret |-> -1, grew |-> g.grew, path |-> "update",
          map |-> [g.map EXCEPT !.heap[entry].value = NullBuf]]
    ELSE [ret |-> 0, grew |-> g.grew, path |-> "update",
          map |-> [g.map EXCEPT !.heap[entry].value = CopyBytes(val_data, val_size)]]

\* The update branch of hashmap_insert on the matching entry:
\* free(entry->value); entry->value = malloc(val_size); copy on success.
UpdateEntry(g, entry, val_data, val_size, fail) ==
    IF fail = "value"
    THEN [ret |-> -1, grew |-> g.grew, path |-> "update",
          map |-> [g.map EXCEPT !.heap[entry].value = NullBuf]]
    ELSE [ret |-> 0, grew |-> g.grew, path |-> "update",
          map |-> [g.map EXCEPT !.heap[entry].value = CopyBytes(val_data, val_size),
                                !.heap[entry].value_size = val_size]]

\* Faulty variant of the tail of hashmap_insert: map->size++ is missing.
LinkEntry_NoCount(g, index, c) ==
    IF c.entry = 0
    THEN [ret |-> -1, grew |-> g.grew, path |-> "new", map |-> g.map]
    ELSE [ret |-> 0, grew |-> g.grew, path |-> "new",
          map |-> [g.map EXCEPT
                     !.heap = [c.heap EXCEPT ![c.entry].next = g.map.buckets[index + 1]],
                     !.buckets[index + 1] = c.entry]]

\* The tail of hashmap_insert once hashmap_create_entry has returned c: link
\* the new node at the head of chain index and count it.
LinkEntry(g, index, c) ==
    IF c.entry = 0
    THEN [ret |-> -1, grew |-> g.grew, path |-> "new", map |-> g.map]
    ELSE [ret |-> 0, grew |-> g.grew, path |-> "new",
          map |-> [g.map EXCEPT
                     !.heap = [c.heap EXCEPT ![c.entry].next = g.map.buckets[index + 1]],
                     !.buckets[index + 1] = c.entry,
                     !.size = g.map.size + 1]]

\* hashmap_insert after the chain walk: entry is the matching node or 0.
PlaceEntry(g, index, entry, key_data, key_size, val_data, val_size, fail) ==
    IF entry # 0
    THEN UpdateEntry(g, entry, val_data, val_size, fail)
    ELSE LinkEntry(g, index,
                   hashmap_create_entry(g.map.heap, key_data, key_size,
                                        val_data, val_size, fail))

\* hashmap_insert after the grow step g: hash, index, chain walk.
InsertAfterGrow(g, index, key_data, key_size, val_data, val_size, fail) ==
    PlaceEntry(g, index, FindEntry(g.map, g.map.buckets[index + 1], key_data, key_size),
               key_data, key_size, val_data, val_size, fail)

InsertGrown(g, key_data, key_size, val_data, val_size, fail) ==
    InsertAfterGrow(g, BucketIndex(g.map, key_data, key_size),
                    key_data, key_size, val_data, val_size, fail)

\* Faulty variant of hashmap_insert: the load is tested on entry, but the
\* resize runs after the entry has been placed.
hashmap_insert_GrowAfterPlace(m, key_data, key_size, val_data, val_size, resize_ok, fail) ==
    LET p == InsertGrown([grew |-> "no", map |-> m],
                         key_data, key_size, val_data, val_size, fail)
        g == GrowResult(hashmap_resize(p.map, m.capacity * 2, resize_ok))
    IN  IF ~LoadReached(m) THEN p
        ELSE [ret |-> p.ret, grew |-> g.grew, path |-> p.path, map |-> g.map]

\* Faulty variant of hashmap_insert: a failed resize ends the call with -1.
hashmap_insert_AbortOnGrowFailure(m, key_data, key_size, val_data, val_size, resize_ok, fail) ==
    IF GrowStep(m, resize_ok).grew = "failed"
    THEN [ret |-> -1, grew |-> "failed", path |-> "none", map |-> m]
    ELSE InsertGrown(GrowStep(m, resize_ok), key_data, key_size, val_data, val_size, fail)

\* Faulty variant of hashmap_insert: the bucket index is computed before the
\* grow step, from the capacity the Map had on entry.
hashmap_insert_StaleIndex(m, key_data, key_size, val_data, val_size, resize_ok, fail) ==
    InsertAfterGrow(GrowStep(m, resize_ok), BucketIndex(m, key_data, key_size),
                    key_data, key_size, val_data, val_size, fail)

\* Faulty variant of hashmap_insert: the key is looked up first and the grow
\* step is taken only when it is not present.
hashmap_insert_GrowForNewKeyOnly(m, key_data, key_size, val_data, val_size, resize_ok, fail) ==
    IF FindEntry(m, m.buckets[BucketIndex(m, key_data, key_size) + 1],
                 key_data, key_size) # 0
    THEN InsertGrown([grew |-> "no", map |-> m],
                     key_data, key_size, val_data, val_size, fail)
    ELSE InsertGrown(GrowStep(m, resize_ok), key_data, key_size, val_data, val_size, fail)

\* hashmap_insert with valid arguments: the result code, the Map afterwards,
\* what the grow step did ("no", "ok", "failed") and the path taken
\* ("update", "new").  resize_ok: whether the calloc of the grow step succeeds;
\* fail: the malloc of the entry, key or value that fails, if any.
hashmap_insert(m, key_data, key_size, val_data, val_size, resize_ok, fail) ==
    InsertGrown(GrowStep(m, resize_ok), key_data, key_size, val_data, val_size, fail)

\* ---------------------------------------------------------------------- get
\* hashmap_get with valid arguments: the result code and the caller's buffer.
\* want_out: out_val and out_size are given; ok: the malloc of the copy
\* succeeds; ub: the outcome taken when the stored value pointer is null.
hashmap_get(m, key_data, key_size, want_out, ok, ub) ==
    LET index == BucketIndex(m, key_data, key_size)
        entry == FindEntry(m, m.buckets[index + 1], key_data, key_size)
    IN  IF entry = 0 THEN [ret |-> 0, out |-> NullBuf]
        ELSE IF ~want_out THEN [ret |-> 1, out |-> NullBuf]
        ELSE IF ~ok THEN [ret |-> -1, out |-> NullBuf]
        ELSE IF m.heap[entry].value = NullBuf THEN [ret |-> 1, out |-> ub]
        ELSE [ret |-> 1, out |-> CopyBytes(m.heap[entry].value, m.heap[entry].value_size)]

\* ------------------------------------------------------------------- remove
\* Faulty variant of hashmap_remove: the bucket head is relinked whether the
\* entry has a predecessor or not.
hashmap_remove_HeadRelink(m, key_data, key_size) ==
    LET index == BucketIndex(m, key_data, key_size)
        f     == FindWithPrev(m, m.buckets[index + 1], 0, key_data, key_size)
        entry == f[1]
    IN  IF entry = 0 THEN [ret |-> 0, map |-> m]
        ELSE [ret |-> 1,
              map |-> [m EXCEPT !.heap = hashmap_free_entry(m.heap, entry),
                                !.buckets = [m.buckets EXCEPT
                                               ![index + 1] = m.heap[entry].next],
                                !.size = m.size - 1]]

\* Faulty variant of hashmap_remove: the entry is released and left linked.
hashmap_remove_NoUnlink(m, key_data, key_size) ==
    LET index == BucketIndex(m, key_data, key_size)
        f     == FindWithPrev(m, m.buckets[index + 1], 0, key_data, key_size)
        entry == f[1]
    IN  IF entry = 0 THEN [ret |-> 0, map |-> m]
        ELSE [ret |-> 1,
              map |-> [m EXCEPT !.heap[entry].live = FALSE,
                                !.size = m.size - 1]]

\* hashmap_remove with valid arguments: the result code and the Map afterwards.
hashmap_remove(m, key_data, key_size) ==
    LET index == BucketIndex(m, key_data, key_size)
        f     == FindWithPrev(m, m.buckets[index + 1], 0, key_data, key_size)
        entry == f[1]
        prev  == f[2]
    IN  IF entry = 0 THEN [ret |-> 0, map |-> m]
        ELSE LET h1 == IF prev # 0
                       THEN [m.heap EXCEPT ![prev].next = m.heap[entry].next]
                       ELSE m.heap
                 b1 == IF prev # 0 THEN m.buckets
                       ELSE [m.buckets EXCEPT ![index + 1] = m.heap[entry].next]
             IN  [ret |-> 1,
                  map |-> [m EXCEPT !.heap = hashmap_free_entry(h1, entry),
                                    !.buckets = b1,
                                    !.size = m.size - 1]]

\* ------------------------------------------------------------------ destroy
\* Faulty variant of FreeChain: only the head of a chain is released.
FreeChain_HeadOnly(h, entry) ==
    IF entry = 0 THEN h ELSE hashmap_free_entry(h, entry)

\* The while loop of hashmap_destroy over one chain.
RECURSIVE FreeChain(_, _)
FreeChain(h, entry) ==
    IF entry = 0 THEN h
    ELSE FreeChain(hashmap_free_entry(h, entry), h[entry].next)

\* The for loop of hashmap_destroy, from bucket i on.
RECURSIVE FreeFrom(_, _, _)
FreeFrom(m, h, i) ==
    IF i >= m.capacity THEN h
    ELSE FreeFrom(m, FreeChain(h, m.buckets[i + 1]), i + 1)

\* ------------------------------------------------------------------ actions
SetMap(m) ==
    /\ buckets' = m.buckets
    /\ capacity' = m.capacity
    /\ size' = m.size
    /\ hash_func' = m.hash_func
    /\ eq_func' = m.eq_func
    /\ load_factor' = m.load_factor
    /\ heap' = m.heap

\* The Map is m now.
SetMapNow(m) ==
    /\ buckets = m.buckets
    /\ capacity = m.capacity
    /\ size = m.size
    /\ hash_func = m.hash_func
    /\ eq_func = m.eq_func
    /\ load_factor = m.load_factor
    /\ heap = m.heap

Insert(key, val, resize_ok, fail) ==
    /\ Initialized /\ Alive
    /\ \E r \in {hashmap_insert(Map, key, Len(key), val, Len(val), resize_ok, fail)} :
        /\ SetMap(r.map)
        /\ last' = [op |-> "insert", ret |-> r.ret, out |-> NullBuf,
                    grew |-> r.grew, path |-> r.path]
        /\ written' = IF r.ret = 0 THEN [written EXCEPT ![key] = val] ELSE written

Get(key, want_out, ok, ub) ==
    /\ Initialized /\ Alive
    /\ \E r \in {hashmap_get(Map, key, Len(key), want_out, ok, ub)} :
        /\ last' = [op |-> "get", ret |-> r.ret, out |-> r.out,
                    grew |-> "no", path |-> "none"]
        /\ UNCHANGED <<buckets, capacity, size, hash_func, eq_func, load_factor,
                       heap, written>>

Remove(key) ==
    /\ Initialized /\ Alive
    /\ \E r \in {hashmap_remove(Map, key, Len(key))} :
        /\ SetMap(r.map)
        /\ last' = [op |-> "remove", ret |-> r.ret, out |-> NullBuf,
                    grew |-> "no", path |-> "none"]
        /\ written' = IF r.ret = 1 THEN [written EXCEPT ![key] = Absent] ELSE written

\* hashmap_destroy(map): a no-op on a Map without bucket array.
\* last.path tells what the call did: "none" after the early return, "freed"
\* when the loops released entries, "empty" when size was 0.
Destroy ==
    /\ Alive
    /\ IF ~Initialized
       THEN UNCHANGED <<buckets, capacity, size, hash_func, eq_func, load_factor,
                        heap, written>>
       ELSE /\ heap' = FreeFrom(Map, heap, 0)
            /\ buckets' = NullBuf
            /\ capacity' = 0
            /\ size' = 0
            /\ hash_func' = "NULL"
            /\ eq_func' = "NULL"
            /\ load_factor' = <<0, 1>>
            /\ written' = [k \in Keys |-> Absent]
    /\ last' = [NoCall EXCEPT !.op = "destroy",
                              !.path = IF ~Initialized THEN "none"
                                       ELSE IF size = 0 THEN "empty" ELSE "freed"]

\* The node of key in the Map, or 0.
Lookup(m, key) ==
    FindEntry(m, m.buckets[BucketIndex(m, key, Len(key)) + 1], key, Len(key))

\* The malloc calls an insert of key can see fail: the update path calls
\* malloc once, for the value; hashmap_create_entry calls it for the entry,
\* the key and the value.
AllocFailures(key) ==
    IF Initialized /\ Lookup(Map, key) # 0
    THEN {"none", "value"}
    ELSE {"none", "entry", "key", "value"}

\* The arguments and malloc outcomes of a get of key that can make a
\* difference: <<want_out, ok>>.  malloc is only called for a stored key when
\* out_val and out_size are given.
GetChoices(key) ==
    IF Initialized /\ Lookup(Map, key) # 0
    THEN {<<TRUE, TRUE>>, <<TRUE, FALSE>>, <<FALSE, TRUE>>}
    ELSE {<<TRUE, TRUE>>, <<FALSE, TRUE>>}

\* The outcomes of the grow step's calloc that can make a difference: it is
\* only called when the load factor is reached.
ResizeChoices ==
    IF Initialized /\ LoadReached(Map) THEN BOOLEAN ELSE {TRUE}

\* The outcomes of get's read of the stored value of key that can make a
\* difference: the read is only undefined when the value pointer is null.
NullReadChoices(key) ==
    IF ~Initialized THEN {NullBuf}
    ELSE IF Lookup(Map, key) # 0 /\ heap[Lookup(Map, key)].value = NullBuf
         THEN NullReadOutcomes(heap[Lookup(Map, key)].value_size)
         ELSE {NullBuf}

Next ==
    \/ \E a \in InitArgs, ok \in BOOLEAN :
          hashmap_init(a[1], a[2], a[3], ok) /\ UNCHANGED tally
    \/ \E key \in Keys, val \in Values, resize_ok \in ResizeChoices :
          \E fail \in AllocFailures(key) :
             Insert(key, val, resize_ok, fail) /\ UNCHANGED tally
    \/ \E key \in Keys :
          \E c \in GetChoices(key), ub \in NullReadChoices(key) :
             Get(key, c[1], c[2], ub) /\ UNCHANGED tally
    \/ \E key \in Keys : Remove(key) /\ UNCHANGED tally
    \/ Destroy /\ UNCHANGED tally

Spec == Init /\ [][Next]_vars

\* ------------------------------------------------------- tallied successes
\* The same calls with the successes of the Map's current lifetime tallied:
\* ever, the keys inserted successfully; news, the successful inserts of a
\* key that was absent; removals, the successful removals.  A get changes
\* none of what is tallied and is left out.
CountInit(cap, hf, lf, ok) ==
    /\ hashmap_init(cap, hf, lf, ok)
    /\ ever' = {} /\ news' = 0 /\ removals' = 0

CountInsert(key, val, resize_ok, fail) ==
    /\ Insert(key, val, resize_ok, fail)
    /\ ever' = IF last'.ret = 0 THEN ever \cup {key} ELSE ever
    /\ news' = IF last'.ret = 0 /\ Lookup(Map, key) = 0 THEN news + 1 ELSE news
    /\ UNCHANGED removals

CountRemove(key) ==
    /\ removals < MaxRemovals
    /\ Remove(key)
    /\ removals' = IF last'.ret = 1 THEN removals + 1 ELSE removals
    /\ UNCHANGED <<ever, news>>

CountDestroy ==
    /\ Destroy
    /\ ever' = {} /\ news' = 0 /\ removals' = 0

NextCount ==
    \/ \E a \in InitArgs, ok \in BOOLEAN : CountInit(a[1], a[2], a[3], ok)
    \/ \E key \in Keys, val \in Values, resize_ok \in ResizeChoices :
          \E fail \in AllocFailures(key) : CountInsert(key, val, resize_ok, fail)
    \/ \E key \in Keys : CountRemove(key)
    \/ CountDestroy

SpecCount == Init /\ [][NextCount]_vars

\* ------------------------------------------------- calls with any arguments
\* Faulty variant of the test that opens insert, get and remove: key_size == 0 is let through.
ArgsValid_AnySize(map_given, key_data, key_size) ==
    map_given /\ key_data # NullBuf

\* if (!map || !key_data || key_size == 0) return -1; the test that opens
\* insert, get and remove.  map_given: the map pointer is not null.
ArgsValid(map_given, key_data, key_size) ==
    map_given /\ key_data # NullBuf /\ key_size # 0

\* hashmap_insert from its first line on; m is the caller's Map.
hashmap_insert_any(map_given, m, key_data, key_size, val_data, val_size, resize_ok, fail) ==
    IF ~ArgsValid(map_given, key_data, key_size)
    THEN [ret |-> -1, grew |-> "no", path |-> "none", map |-> m]
    ELSE hashmap_insert(m, key_data, key_size, val_data, val_size, resize_ok, fail)

\* hashmap_get from its first line on.
hashmap_get_any(map_given, m, key_data, key_size, want_out, ok, ub) ==
    IF ~ArgsValid(map_given, key_data, key_size)
    THEN [ret |-> -1, out |-> NullBuf]
    ELSE hashmap_get(m, key_data, key_size, want_out, ok, ub)

\* hashmap_remove from its first line on.
hashmap_remove_any(map_given, m, key_data, key_size) ==
    IF ~ArgsValid(map_given, key_data, key_size)
    THEN [ret |-> -1, map |-> m]
    ELSE hashmap_remove(m, key_data, key_size)

\* Argument lists <<map_given, key_data, key_size>> that the test refuses: a
\* null map, a null key, and a key of length 0.
BadArgs ==
    {<<FALSE, k, Len(k)>> : k \in Keys} \cup {<<TRUE, NullBuf, 1>>}
        \cup {<<TRUE, k, 0>> : k \in Keys}

InsertAny(map_given, key_data, key_size, val, resize_ok, fail) ==
    /\ Initialized /\ Alive
    /\ \E r \in {hashmap_insert_any(map_given, Map, key_data, key_size,
                                    val, Len(val), resize_ok, fail)} :
        /\ SetMap(r.map)
        /\ last' = [op |-> "insert", ret |-> r.ret, out |-> NullBuf,
                    grew |-> r.grew, path |-> r.path]
        /\ written' = IF r.ret = 0 /\ key_data \in Keys /\ key_size = Len(key_data)
                      THEN [written EXCEPT ![key_data] = val] ELSE written

GetAny(map_given, key_data, key_size, want_out, ok, ub) ==
    /\ Initialized /\ Alive
    /\ \E r \in {hashmap_get_any(map_given, Map, key_data, key_size, want_out, ok, ub)} :
        /\ last' = [op |-> "get", ret |-> r.ret, out |-> r.out,
                    grew |-> "no", path |-> "none"]
        /\ UNCHANGED <<buckets, capacity, size, hash_func, eq_func, load_factor,
                       heap, written>>

RemoveAny(map_given, key_data, key_size) ==
    /\ Initialized /\ Alive
    /\ \E r \in {hashmap_remove_any(map_given, Map, key_data, key_size)} :
        /\ SetMap(r.map)
        /\ last' = [op |-> "remove", ret |-> r.ret, out |-> NullBuf,
                    grew |-> "no", path |-> "none"]
        /\ written' = IF r.ret = 1 /\ key_data \in Keys /\ key_size = Len(key_data)
                      THEN [written EXCEPT ![key_data] = Absent] ELSE written

\* The calls of Next, and the calls whose arguments the test refuses.
NextArgs ==
    \/ Next
    \/ \E a \in BadArgs, val \in Values :
          InsertAny(a[1], a[2], a[3], val, TRUE, "none") /\ UNCHANGED tally
    \/ \E a \in BadArgs, want_out \in BOOLEAN :
          GetAny(a[1], a[2], a[3], want_out, TRUE, NullBuf) /\ UNCHANGED tally
    \/ \E a \in BadArgs : RemoveAny(a[1], a[2], a[3]) /\ UNCHANGED tally

SpecArgs == Init /\ [][NextArgs]_vars

\* ------------------------------------------- initialize with any arguments
\* Further argument lists of hashmap_init: a negative load factor, and a
\* load factor that is not a number, on a table of one bucket.
InitArgsAny == InitArgs \cup {<<0, "NULL", <<-1, 2>>>>, <<1, "NULL", NaN>>}

\* The calls of Next and the initializations with the further arguments.
NextInit ==
    \/ Next
    \/ \E a \in InitArgsAny \ InitArgs, ok \in BOOLEAN :
          hashmap_init(a[1], a[2], a[3], ok) /\ UNCHANGED tally

SpecInit == Init /\ [][NextInit]_vars

\* ------------------------------------------- the caller's copy of a value
\* Faulty variant of OutTarget: get hands out entry->value itself.
OutTarget_Alias(m, key_data, key_size, want_out, ok) ==
    IF FindEntry(m, m.buckets[BucketIndex(m, key_data, key_size) + 1],
                 key_data, key_size) = 0 \/ ~want_out \/ ~ok
    THEN 0
    ELSE FindEntry(m, m.buckets[BucketIndex(m, key_data, key_size) + 1],
                   key_data, key_size)

\* Where *out_val points after hashmap_get: the node whose value buffer it
\* is, or 0 when it is no buffer of the Map.  *out_val = malloc(...) is a
\* buffer of its own, and *out_val is not assigned on the other paths.
OutTarget(m, key_data, key_size, want_out, ok) == 0

\* The heap after the caller has stored bytes through a pointer to target.
WriteThrough(h, target, bytes) ==
    IF target = 0 THEN h ELSE [h EXCEPT ![target].value = bytes]

\* What the caller writes over a buffer it was given: zeros, byte for byte.
Overwritten(buf) == [i \in 1 .. Len(buf) |-> 0]

\* A get of a stored key with out_val and out_size, after which the caller
\* overwrites the buffer it received.
GetThenWrite(key, ub) ==
    /\ Initialized /\ Alive
    /\ \E r \in {hashmap_get(Map, key, Len(key), TRUE, TRUE, ub)} :
        /\ r.ret = 1 /\ r.out # Segv
        /\ heap' = WriteThrough(heap, OutTarget(Map, key, Len(key), TRUE, TRUE),
                                Overwritten(r.out))
        /\ last' = [op |-> "get", ret |-> r.ret, out |-> Overwritten(r.out),
                    grew |-> "no", path |-> "overwritten"]
        /\ UNCHANGED <<buckets, capacity, size, hash_func, eq_func, load_factor,
                       written>>

\* The calls of Next, the gets whose arguments are refused, and the gets
\* whose result the caller overwrites.
NextCopy ==
    \/ Next
    \/ \E a \in BadArgs, want_out \in BOOLEAN :
          GetAny(a[1], a[2], a[3], want_out, TRUE, NullBuf) /\ UNCHANGED tally
    \/ \E key \in Keys : \E ub \in NullReadChoices(key) :
          GetThenWrite(key, ub) /\ UNCHANGED tally

SpecCopy == Init /\ [][NextCopy]_vars

\* ------------------------------------------------------ calls step by step
\* The same functions with every loop iteration a step of its own.  While a
\* call runs, last holds where it stands: the loop it is in ("walk", the
\* while loop of insert, get and remove; "rehash", the loops of
\* hashmap_resize; "free", the loops of hashmap_destroy), the bucket index
\* i, the entry pointer, the key of the call, the new bucket array of a
\* resize and what the grow step of an insert did.
Run(op, loop, i, entry, key, new_buckets, grew) ==
    [op |-> op, ret |-> 0, out |-> NullBuf, grew |-> grew, path |-> "running",
     loop |-> loop, i |-> i, entry |-> entry, key |-> key,
     new_buckets |-> new_buckets]

\* A call has been entered and has not ended.
Running == last.path = "running"

\* HashMapEntry *entry = map->buckets[i] of a for loop, NULL past the array.
BucketHead(i) == IF i < capacity THEN buckets[i + 1] ELSE 0

\* hashmap_get and hashmap_remove up to their loop: hash, index, first entry.
CallWalk(op, key) ==
    /\ Initialized /\ Alive /\ ~Running
    /\ last' = Run(op, "walk", BucketIndex(Map, key, Len(key)),
                   buckets[BucketIndex(Map, key, Len(key)) + 1], key, <<>>, "no")
    /\ UNCHANGED <<mapvars, written>>

\* hashmap_insert up to its first loop: that of hashmap_resize when the load
\* factor is reached and the new array is allocated, its own otherwise.
CallInsert(key, resize_ok) ==
    /\ Initialized /\ Alive /\ ~Running
    /\ IF LoadReached(Map) /\ CallocBuckets(capacity * 2, resize_ok) # NullBuf
       THEN last' = Run("insert", "rehash", 0, BucketHead(0), key,
                        CallocBuckets(capacity * 2, resize_ok), "ok")
       ELSE last' = Run("insert", "walk", BucketIndex(Map, key, Len(key)),
                        buckets[BucketIndex(Map, key, Len(key)) + 1], key, <<>>,
                        IF LoadReached(Map) THEN "failed" ELSE "no")
    /\ UNCHANGED <<mapvars, written>>

\* hashmap_destroy of an initialized Map up to its loops.
CallDestroy ==
    /\ Initialized /\ Alive /\ ~Running
    /\ last' = Run("destroy", "free", 0, BucketHead(0), <<>>, <<>>, "no")
    /\ UNCHANGED <<mapvars, written>>

\* One test of the loops of hashmap_resize and what follows it: relink the
\* entry and go on with the next it had; or take the next bucket; or, past
\* the last bucket, install the new array and enter the loop of insert.
RehashStep ==
    /\ Running /\ last.loop = "rehash"
    /\ IF last.entry # 0
       THEN \E new_index \in {CallHash(hash_func, heap[last.entry].key,
                                       heap[last.entry].key_size)
                                 % Len(last.new_buckets)} :
               /\ heap' = [heap EXCEPT ![last.entry].next = last.new_buckets[new_index + 1]]
               /\ last' = [last EXCEPT !.entry = heap[last.entry].next,
                                       !.new_buckets[new_index + 1] = last.entry]
               /\ UNCHANGED <<buckets, capacity, size, hash_func, eq_func,
                              load_factor, written>>
       ELSE IF last.i + 1 < capacity
       THEN /\ last' = [last EXCEPT !.i = last.i + 1, !.entry = BucketHead(last.i + 1)]
            /\ UNCHANGED <<mapvars, written>>
       ELSE /\ buckets' = last.new_buckets
            /\ capacity' = Len(last.new_buckets)
            /\ last' = Run("insert", "walk",
                           CallHash(hash_func, last.key, Len(last.key))
                              % Len(last.new_buckets),
                           last.new_buckets[(CallHash(hash_func, last.key, Len(last.key))
                                               % Len(last.new_buckets)) + 1],
                           last.key, <<>>, "ok")
            /\ UNCHANGED <<size, hash_func, eq_func, load_factor, heap, written>>

\* One test of the loops of hashmap_destroy and what follows it: free the
\* entry and go on with the next it had; or take the next bucket; or, past
\* the last bucket, free the array and reset the fields.
FreeStep ==
    /\ Running /\ last.loop = "free"
    /\ IF last.entry # 0
       THEN /\ heap' = hashmap_free_entry(heap, last.entry)
            /\ last' = [last EXCEPT !.entry = heap[last.entry].next]
            /\ UNCHANGED <<buckets, capacity, size, hash_func, eq_func,
                           load_factor, written>>
       ELSE IF last.i + 1 < capacity
       THEN /\ last' = [last EXCEPT !.i = last.i + 1, !.entry = BucketHead(last.i + 1)]
            /\ UNCHANGED <<mapvars, written>>
       ELSE /\ buckets' = NullBuf
            /\ capacity' = 0
            /\ size' = 0
            /\ hash_func' = "NULL"
            /\ eq_func' = "NULL"
            /\ load_factor' = <<0, 1>>
            /\ last' = [NoCall EXCEPT !.op = "destroy", !.path = "freed"]
            /\ UNCHANGED <<heap, written>>

\* One test of the while loop of insert, get and remove and what follows
\* it: go on with the next entry; or, at the end of the chain or at the
\* matching entry, the rest of the function up to its return.
WalkStep ==
    /\ Running /\ last.loop = "walk"
    /\ IF /\ last.entry # 0
          /\ ~(/\ heap[last.entry].key_size = Len(last.key)
               /\ CallEq(eq_func, heap[last.entry].key, last.key, Len(last.key)))
       THEN /\ last' = [last EXCEPT !.entry = heap[last.entry].next]
            /\ UNCHANGED <<mapvars, written>>
       ELSE IF last.op = "get"
       THEN \E c \in GetChoices(last.key), ub \in NullReadChoices(last.key) :
               \E r \in {hashmap_get(Map, last.key, Len(last.key), c[1], c[2], ub)} :
                  /\ last' = [op |-> "get", ret |-> r.ret, out |-> r.out,
                              grew |-> "no", path |-> "none"]
                  /\ UNCHANGED <<mapvars, written>>
       ELSE IF last.op = "remove"
       THEN \E r \in {hashmap_remove(Map, last.key, Len(last.key))} :
               /\ SetMap(r.map)
               /\ last' = [op |-> "remove", ret |-> r.ret, out |-> NullBuf,
                           grew |-> "no", path |-> "none"]
               /\ UNCHANGED written
       ELSE \E val \in Values, fail \in AllocFailures(last.key) :
               \E r \in {PlaceEntry([grew |-> last.grew, map |-> Map], last.i,
                                    last.entry, last.key, Len(last.key),
                                    val, Len(val), fail)} :
                  /\ SetMap(r.map)
                  /\ last' = [op |-> "insert", ret |-> r.ret, out |-> NullBuf,
                              grew |-> r.grew, path |-> r.path]
                  /\ UNCHANGED written

NextSteps ==
    \/ \E a \in InitArgs, ok \in BOOLEAN :
          hashmap_init(a[1], a[2], a[3], ok) /\ UNCHANGED tally
    \/ \E op \in {"get", "remove"}, key \in Keys : CallWalk(op, key) /\ UNCHANGED tally
    \/ \E key \in Keys, resize_ok \in ResizeChoices :
          CallInsert(key, resize_ok) /\ UNCHANGED tally
    \/ CallDestroy /\ UNCHANGED tally
    \/ RehashStep /\ UNCHANGED tally
    \/ FreeStep /\ UNCHANGED tally
    \/ WalkStep /\ UNCHANGED tally

\* A call that has been entered keeps running: the code is single-threaded
\* and nothing suspends it.
LoopStep == (RehashStep \/ FreeStep \/ WalkStep) /\ UNCHANGED tally

SpecSteps == Init /\ [][NextSteps]_vars /\ WF_vars(LoopStep)

\* ------------------------------------------------- capacity * 2 in size_t
\* The arithmetic of size_t: integers modulo 2^SizeBits.
SizeMod == Pow2(SizeBits)

\* Faulty variant of DoubleCapacity: a product that does not fit is 0.
DoubleCapacity_ZeroOnOverflow(cap) ==
    IF cap * 2 >= SizeMod THEN 0 ELSE cap * 2

\* map->capacity * 2, computed in size_t.
DoubleCapacity(cap) == (cap * 2) % SizeMod

\* The grow step of hashmap_insert with the argument of hashmap_resize
\* computed in size_t.
GrowStepWrap(m, resize_ok) ==
    IF ~LoadReached(m) THEN [grew |-> "no", map |-> m]
    ELSE GrowResult(hashmap_resize(m, DoubleCapacity(m.capacity), resize_ok))

\* An empty Map of cap buckets with the default functions and load factor lf.
EmptyMap(cap, lf) ==
    [buckets |-> [i \in 1 .. cap |-> 0], capacity |-> cap, size |-> 0,
     hash_func |-> "default_hash", eq_func |-> "default_eq",
     load_factor |-> lf, heap |-> [n \in Nodes |-> FreeNode]]

\* The load factors of the Maps below: one that a single entry reaches at
\* every capacity, and the default.
WrapLoadFactors == {<<1, SizeMod>>, DEFAULT_LOAD_FACTOR}

\* The Maps the grow step is applied to: one entry in a table of any
\* capacity size_t can hold, whether or not an array of that many cells can
\* be allocated.
InitWrap ==
    \E cap \in 1 .. SizeMod - 1, lf \in WrapLoadFactors, key \in Keys :
        /\ SetMapNow(InsertGrown([grew |-> "no", map |-> EmptyMap(cap, lf)],
                                 key, Len(key), <<7>>, 1, "none").map)
        /\ last = [op |-> "insert", ret |-> 0, out |-> NullBuf,
                   grew |-> "no", path |-> "new"]
        /\ written = [k \in Keys |-> IF k = key THEN <<7>> ELSE Absent]
        /\ ever = {}
        /\ news = 0
        /\ removals = 0

\* hashmap_insert with the grow step in size_t.
InsertWrap(key, val, resize_ok, fail) ==
    /\ Initialized /\ Alive
    /\ \E r \in {InsertGrown(GrowStepWrap(Map, resize_ok),
                             key, Len(key), val, Len(val), fail)} :
        /\ SetMap(r.map)
        /\ last' = [op |-> "insert", ret |-> r.ret, out |-> NullBuf,
                    grew |-> r.grew, path |-> r.path]
        /\ written' = IF r.ret = 0 THEN [written EXCEPT ![key] = val] ELSE written

NextWrap ==
    \/ \E key \in Keys, val \in Values, resize_ok \in ResizeChoices :
          \E fail \in AllocFailures(key) :
             InsertWrap(key, val, resize_ok, fail) /\ UNCHANGED tally
    \/ \E key \in Keys : Remove(key) /\ UNCHANGED tally

SpecWrap == InitWrap /\ [][NextWrap]_vars

\* ---------------------------------------------------------------- observers
\* The Map a step leaves.
MapNext == [buckets |-> buckets', capacity |-> capacity', size |-> size',
            hash_func |-> hash_func', eq_func |-> eq_func',
            load_factor |-> load_factor', heap |-> heap']

\* The nodes of the chain that starts at entry, head first; fuel bounds the
\* walk so that it ends on any heap.
RECURSIVE ChainFrom(_, _, _)
ChainFrom(h, entry, fuel) ==
    IF entry = 0 \/ fuel = 0 THEN <<>>
    ELSE <<entry>> \o ChainFrom(h, h[entry].next, fuel - 1)

\* The chain of 0-based bucket i of Map m.
Chain(m, i) == ChainFrom(m.heap, m.buckets[i + 1], MaxNodes + 1)

\* The nodes some bucket of m reaches.
Reachable(m) ==
    UNION {{Chain(m, i)[j] : j \in 1 .. Len(Chain(m, i))} : i \in 0 .. m.capacity - 1}

\* The number of chain positions over all buckets of m.
RECURSIVE ChainTotal(_, _)
ChainTotal(m, i) ==
    IF i >= m.capacity THEN 0 ELSE Len(Chain(m, i)) + ChainTotal(m, i + 1)

\* Everything a get of key on Map m can return when out_val and out_size
\* are given and the copy can be allocated.
GetResults(m, key) ==
    {hashmap_get(m, key, Len(key), TRUE, TRUE, ub) :
        ub \in IF Lookup(m, key) # 0 /\ m.heap[Lookup(m, key)].value = NullBuf
               THEN NullReadOutcomes(m.heap[Lookup(m, key)].value_size)
               ELSE {NullBuf}}

Found(v) == [ret |-> 1, out |-> v]
NotFound == [ret |-> 0, out |-> NullBuf]

\* A node but for its next link.
Payload(node) == [node EXCEPT !.next = 0]

\* The step is an insert of key with value val that returns 0.
IsInsertOk(key, val) ==
    /\ last'.op = "insert" /\ last'.ret = 0 /\ written'[key] = val
    /\ \E resize_ok \in BOOLEAN : Insert(key, val, resize_ok, "none")

\* size counts the nodes of the chains, each node once, and they are the
\* allocated nodes.
SizeMatches(m) ==
    /\ m.size = ChainTotal(m, 0)
    /\ m.size = Cardinality(Reachable(m))
    /\ Reachable(m) = {n \in Nodes : m.heap[n].live}

\* No two nodes of m hold keys of the same length that eq_func calls equal.
NoDuplicateKeys(m) ==
    \A n1, n2 \in Reachable(m) :
        (/\ m.heap[n1].key_size = m.heap[n2].key_size
         /\ CallEq(m.eq_func, m.heap[n1].key, m.heap[n2].key, m.heap[n1].key_size))
        => n1 = n2

\* Every node of chain i hashes to i under the capacity of m.
WellPlaced(m) ==
    \A i \in 0 .. m.capacity - 1 :
        \A j \in 1 .. Len(Chain(m, i)) :
            BucketIndex(m, m.heap[Chain(m, i)[j]].key, m.heap[Chain(m, i)[j]].key_size) = i

\* size / capacity of the first pair is at most that of the second.
RatioLeq(s1, c1, s2, c2) == s1 * c2 <= s2 * c1

\* ------------------------------------------------------------------- claims
\* C1 (as claimed): for every key whose most recent successful mutation
\* was insert(K, V), get(K) returns found with a copy equal to V.
C1_RoundTrip ==
    (Initialized /\ Alive) =>
        \A k \in Keys :
            written[k] # Absent => GetResults(Map, k) = {Found(written[k])}

\* C2: a successful insert of a key the Map already holds replaces the value
\* and value length of the key's existing entry, leaves size and the set of
\* entries unchanged, keeps one entry for the key, and a get of the key in
\* the state it leaves returns the new value; a get changes nothing, so that
\* the gets that follow return it too.
C2_UpdateSemantics ==
    [][/\ \A k \in Keys, v \in Values :
            (IsInsertOk(k, v) /\ Initialized /\ Lookup(Map, k) # 0)
            => /\ last'.path = "update"
               /\ size' = size
               /\ Lookup(MapNext, k) = Lookup(Map, k)
               /\ heap'[Lookup(Map, k)].value = v
               /\ heap'[Lookup(Map, k)].value_size = Len(v)
               /\ heap'[Lookup(Map, k)].key = k
               /\ {n \in Nodes : heap'[n].live} = {n \in Nodes : heap[n].live}
               /\ Cardinality({n \in Nodes : heap'[n].live /\ heap'[n].key = k}) = 1
               /\ GetResults(MapNext, k) = {Found(v)}
       /\ last'.op = "get" => UNCHANGED mapvars]_vars

\* C2's case: an update that succeeded on a Map of two entries.
C2_Witness ==
    last.op = "insert" /\ last.path = "update" /\ last.ret = 0 /\ size = 2

\* C3: a resize to twice the capacity succeeds when the array can be
\* allocated and then changes only the bucket array, the capacity and the
\* next links: size is unchanged, every node keeps its key, value and
\* lengths, the same nodes are reachable, each exactly once, and every key
\* gets the same answer from get as before.
C3_ResizePreserves ==
    (Initialized /\ Alive /\ capacity * 2 <= MaxCap) =>
        \E r \in {hashmap_resize(Map, capacity * 2, TRUE)} :
            /\ r.ret = 0
            /\ r.map.capacity = capacity * 2
            /\ Len(r.map.buckets) = capacity * 2
            /\ r.map.size = size
            /\ r.map.hash_func = hash_func /\ r.map.eq_func = eq_func
            /\ r.map.load_factor = load_factor
            /\ \A n \in Nodes : Payload(r.map.heap[n]) = Payload(heap[n])
            /\ Reachable(r.map) = Reachable(Map)
            /\ ChainTotal(r.map, 0) = Cardinality(Reachable(Map))
            /\ \A k \in Keys : GetResults(r.map, k) = GetResults(Map, k)

\* C3's case: an insert has just resized a Map that held two entries or more.
C3_Witness ==
    last.op = "insert" /\ last.grew = "ok" /\ last.path = "update" /\ size >= 2

\* C4: remove(K) returns 1 exactly when K was present; then K's entry alone
\* is unlinked and released, size drops by one, get(K) returns not-found,
\* every other key keeps its entry, value and length, and capacity is
\* unchanged; when K was absent it returns 0 and the Map is unchanged.  A key
\* that is absent becomes present by a successful insert only.
C4_Remove ==
    [][/\ \A k \in Keys :
            (last'.op = "remove" /\ Remove(k)) =>
               /\ last'.ret = (IF Lookup(Map, k) # 0 THEN 1 ELSE 0)
               /\ Lookup(Map, k) = 0 => UNCHANGED mapvars
               /\ Lookup(Map, k) # 0 =>
                     /\ size' = size - 1
                     /\ capacity' = capacity
                     /\ Len(buckets') = Len(buckets)
                     /\ heap'[Lookup(Map, k)] = FreeNode
                     /\ Lookup(MapNext, k) = 0
                     /\ GetResults(MapNext, k) = {NotFound}
                     /\ Reachable(MapNext) = Reachable(Map) \ {Lookup(Map, k)}
                     /\ \A j \in Keys \ {k} :
                           /\ Lookup(MapNext, j) = Lookup(Map, j)
                           /\ Lookup(Map, j) # 0 =>
                                 Payload(heap'[Lookup(Map, j)]) = Payload(heap[Lookup(Map, j)])
       /\ \A k \in Keys :
            (Initialized /\ Initialized' /\ Lookup(Map, k) = 0 /\ Lookup(MapNext, k) # 0)
               => (last'.op = "insert" /\ last'.ret = 0)]_vars

\* C4's case: a remove has just taken an entry out of a chain that goes on.
C4_Witness ==
    /\ last.op = "remove" /\ last.ret = 1 /\ size >= 1
    /\ \E k \in Keys : written[k] = Absent /\ Lookup(Map, k) = 0

\* C5 (as claimed): an insert that returns an error leaves the Map
\* unchanged.
C5_InsertFailureAtomic ==
    [][(last'.op = "insert" /\ last'.ret = -1) => UNCHANGED mapvars]_vars

\* C6: when the load factor is reached and the grow step of an insert cannot
\* allocate the new bucket array, the resize leaves the Map as it was, and
\* the insert goes on in the unresized table and returns 0 when its own
\* allocations succeed: the key is then stored with the value, size counts
\* a new key once, every other key keeps its entry and what get returns for
\* it, and the Map it leaves is well formed.
C6_GrowthFailureRecoverable ==
    (Initialized /\ Alive /\ LoadReached(Map)) =>
        /\ hashmap_resize(Map, capacity * 2, FALSE) = [ret |-> -1, map |-> Map]
        /\ \A k \in Keys, v \in Values :
              \E r \in {hashmap_insert(Map, k, Len(k), v, Len(v), FALSE, "none")} :
                 /\ r.grew = "failed"
                 /\ r.map.capacity = capacity
                 /\ Len(r.map.buckets) = Len(buckets)
                 /\ r.ret = (IF Lookup(Map, k) # 0 \/ MallocNode(heap) # 0 THEN 0 ELSE -1)
                 /\ r.ret = -1 => r.map = Map
                 /\ r.ret = 0 =>
                       /\ r.map.size = size + (IF Lookup(Map, k) = 0 THEN 1 ELSE 0)
                       /\ GetResults(r.map, k) = {Found(v)}
                       /\ SizeMatches(r.map) /\ NoDuplicateKeys(r.map) /\ WellPlaced(r.map)
                       /\ \A j \in Keys \ {k} :
                             /\ Lookup(r.map, j) = Lookup(Map, j)
                             /\ GetResults(r.map, j) = GetResults(Map, j)

\* C6's case: an insert has stored a second key after its grow step failed.
C6_Witness ==
    /\ last.op = "insert" /\ last.grew = "failed" /\ last.ret = 0
    /\ last.path = "new" /\ size = 2

\* C7 (as claimed): between initialize and destroy, size is the number of
\* distinct keys ever inserted successfully minus the number of successful
\* removals, and an insert of a key that is present does not increase it.
C7_SizeAsStated ==
    Initialized =>
        /\ size = Cardinality(ever) - removals
        /\ \A k \in Keys, v \in Values, resize_ok \in BOOLEAN :
              Lookup(Map, k) # 0 =>
                 hashmap_insert(Map, k, Len(k), v, Len(v), resize_ok, "none").map.size <= size

\* C7 (amended): between initialize and destroy, size is the number of
\* successful inserts of a key that was absent minus the number of
\* successful removals, and an insert of a key that is present leaves it as
\* it is, whether it succeeds or not.
C7_SizeCounts ==
    Initialized =>
        /\ size = news - removals
        /\ \A k \in Keys, v \in Values, resize_ok \in BOOLEAN :
              Lookup(Map, k) # 0 =>
                 \A fail \in {"none", "value"} :
                    hashmap_insert(Map, k, Len(k), v, Len(v), resize_ok, fail).map.size = size

\* C7's case: a key was inserted, removed and inserted again.
C7_Witness ==
    Initialized /\ removals >= 1 /\ news > Cardinality(ever) /\ size >= 1

\* C8: in an initialized Map size is the number of nodes over all chains,
\* each allocated node is in one chain once, and no two nodes hold equal
\* keys.
C8_StructuralSize ==
    Initialized => (SizeMatches(Map) /\ NoDuplicateKeys(Map))

\* C8's case: two entries share a chain.
C8_Witness ==
    /\ Initialized /\ size = 2
    /\ \E i \in 0 .. capacity - 1 : Len(Chain(Map, i)) = 2

\* C9: in an initialized Map every node of chain i holds a key whose hash
\* modulo the capacity is i.
C9_BucketPlacement ==
    Initialized => WellPlaced(Map)

\* C9's case: an insert has gone on after a failed resize of a Map of two
\* buckets or more.
C9_Witness ==
    /\ Initialized /\ last.op = "insert" /\ last.grew = "failed" /\ size >= 1
    /\ capacity >= 2

\* C10 (as claimed): after a successful insert size / capacity is at most
\* the load factor, or at most the size / capacity the Map had before the
\* resize that the insert performed.
C10_LoadBoundAsStated ==
    [][(last'.op = "insert" /\ last'.ret = 0) =>
          \/ RatioLeq(size', capacity', load_factor[1], load_factor[2])
          \/ last'.grew = "ok" /\ RatioLeq(size', capacity', size, capacity)]_vars

\* C10 (amended): after a successful insert, if the load factor was not
\* reached on entry, capacity is unchanged and size without the entry just
\* created is below load factor times capacity; if the insert resized,
\* capacity has doubled and size / capacity is at most what it was before
\* the resize; if the resize failed, capacity is unchanged and size has
\* grown by one at most.
C10_LoadBound ==
    [][(last'.op = "insert" /\ last'.ret = 0) =>
          /\ last'.grew = "no" =>
                /\ capacity' = capacity
                /\ (size' - (IF last'.path = "new" THEN 1 ELSE 0)) * load_factor[2]
                      < load_factor[1] * capacity'
          /\ last'.grew = "ok" =>
                /\ capacity' = 2 * capacity
                /\ RatioLeq(size', capacity', size, capacity)
          /\ last'.grew = "failed" =>
                /\ capacity' = capacity
                /\ LoadReached(Map)
                /\ size' <= size + 1]_vars

\* C10's case: an insert has resized the Map and stored a new key.
C10_Witness ==
    last.op = "insert" /\ last.ret = 0 /\ last.grew = "ok" /\ last.path = "new"

\* The nodes a step allocates.
NewNodes == {n \in Nodes : heap'[n].live /\ ~heap[n].live}

\* C11 (as claimed): an insert doubles the capacity if and only if
\* size / capacity >= load_factor on entry.
C11_GrowthTriggerAsStated ==
    [][last'.op = "insert" => (capacity' = 2 * capacity <=> LoadReached(Map))]_vars

\* C11 (amended): an insert calls the resize to twice the capacity if and
\* only if size / capacity >= load_factor on entry; the capacity doubles if
\* and only if that resize can allocate its bucket array, and is unchanged
\* otherwise.  The resize precedes the placement: what the insert leaves is
\* the resized Map with, for a new key, the new node at the head of the
\* chain that the key's hash selects under the doubled capacity, and for an
\* insert that fails to allocate the new entry the resized Map itself.
C11_GrowthTrigger ==
    [][last'.op = "insert" =>
          /\ (last'.grew # "no") <=> LoadReached(Map)
          /\ (last'.grew = "ok") <=>
                (LoadReached(Map) /\ capacity' = 2 * capacity /\ capacity' <= MaxCap)
          /\ last'.grew # "ok" => capacity' = capacity
          /\ Len(buckets') = capacity'
          /\ last'.grew = "ok" =>
                \E rs \in {hashmap_resize(Map, 2 * capacity, TRUE).map} :
                   /\ \A n \in Nodes \ NewNodes :
                         /\ heap'[n].next = rs.heap[n].next
                         /\ heap'[n].key = rs.heap[n].key
                   /\ last'.ret = -1 =>
                         /\ NewNodes = {} /\ buckets' = rs.buckets /\ size' = size
                         /\ last'.path = "new" => MapNext = rs
                   /\ last'.ret = 0 =>
                         /\ \A n \in NewNodes :
                               /\ last'.path = "new"
                               /\ buckets' =
                                     [rs.buckets EXCEPT
                                        ![BucketIndex(MapNext, heap'[n].key,
                                                      heap'[n].key_size) + 1] = n]
                               /\ heap'[n].next =
                                     rs.buckets[BucketIndex(MapNext, heap'[n].key,
                                                            heap'[n].key_size) + 1]
                         /\ last'.path = "new" => Cardinality(NewNodes) = 1
                         /\ last'.path = "update" => buckets' = rs.buckets]_vars

\* C11's case: an insert has doubled the capacity and put a new key in front
\* of an entry that the resize had moved to the same chain.
C11_Witness ==
    /\ last.op = "insert" /\ last.ret = 0 /\ last.grew = "ok" /\ last.path = "new"
    /\ \E i \in 0 .. capacity - 1 : Len(Chain(Map, i)) = 2

\* C12: on an initialized Map, insert, get and remove called with a null
\* map, a null key or a key length of 0 return -1 and leave the Map as it is,
\* whatever the other arguments and whatever the allocator would do; no entry
\* with a key of length 0 is ever stored.
C12_InvalidArguments ==
    (Initialized /\ Alive) =>
        /\ \A a \in BadArgs :
              /\ \A v \in Values, resize_ok \in BOOLEAN,
                    fail \in {"none", "entry", "key", "value"} :
                    \E r \in {hashmap_insert_any(a[1], Map, a[2], a[3], v, Len(v),
                                                 resize_ok, fail)} :
                       r.ret = -1 /\ r.map = Map /\ r.grew = "no"
              /\ \A want_out \in BOOLEAN, ok \in BOOLEAN :
                    hashmap_get_any(a[1], Map, a[2], a[3], want_out, ok, NullBuf)
                       = [ret |-> -1, out |-> NullBuf]
              /\ hashmap_remove_any(a[1], Map, a[2], a[3]) = [ret |-> -1, map |-> Map]
        /\ \A n \in Reachable(Map) : heap[n].key_size > 0

\* C12's case: an insert with refused arguments has returned on a Map whose
\* load factor is reached.
C12_Witness ==
    /\ Initialized /\ last.op = "insert" /\ last.ret = -1 /\ last.path = "none"
    /\ LoadReached(Map) /\ size >= 1

\* An entry of m holds a key of the length of key whose bytes eq_func calls
\* equal to those of key.
Stored(m, key) ==
    \E n \in Reachable(m) :
        /\ m.heap[n].key_size = Len(key)
        /\ CallEq(m.eq_func, m.heap[n].key, key, Len(key))

\* C13 (as claimed): with valid arguments get returns 1 if and only if the
\* key is stored (and the copy, when asked for, can be allocated), 0 if and
\* only if it is not stored, and -1 only when the copy cannot be allocated;
\* with refused arguments it returns -1.
C13_GetOutcomes ==
    (Initialized /\ Alive) =>
        /\ \A k \in Keys, want_out \in BOOLEAN, ok \in BOOLEAN :
              \A ub \in NullReadChoices(k) :
                 \E r \in {hashmap_get_any(TRUE, Map, k, Len(k), want_out, ok, ub)} :
                    /\ r.ret \in {-1, 0, 1}
                    /\ (r.ret = 1 /\ r.out # Segv) <=>
                          (Stored(Map, k) /\ (~want_out \/ ok))
                    /\ r.ret = 0 <=> ~Stored(Map, k)
                    /\ r.ret = -1 <=> (Stored(Map, k) /\ want_out /\ ~ok)
        /\ \A a \in BadArgs :
              hashmap_get_any(a[1], Map, a[2], a[3], TRUE, TRUE, NullBuf).ret = -1

NodesOf(m, key) == {n \in Reachable(m) : m.heap[n].key = key}

\* C15: the entry a walk finds for a key has the key's length and bytes the
\* equality function calls equal, so it holds that very key; a get finds a
\* key exactly when an entry holds it and copies that entry's value; a
\* remove releases the entry of its key and no other; an insert updates the
\* entry of its key or links a new one and leaves every other entry as it
\* was, also when keys share a bucket and one is a prefix of the other.
C15_NoFalseMatch ==
    Initialized =>
        \A k \in Keys :
            /\ Cardinality(NodesOf(Map, k)) <= 1
            /\ Stored(Map, k) <=> NodesOf(Map, k) # {}
            /\ Lookup(Map, k) # 0 <=> NodesOf(Map, k) # {}
            /\ Lookup(Map, k) # 0 =>
                  /\ NodesOf(Map, k) = {Lookup(Map, k)}
                  /\ heap[Lookup(Map, k)].key_size = Len(k)
                  /\ CallEq(eq_func, heap[Lookup(Map, k)].key, k, Len(k))
                  /\ heap[Lookup(Map, k)].value # NullBuf =>
                        hashmap_get(Map, k, Len(k), TRUE, TRUE, NullBuf)
                           = Found(heap[Lookup(Map, k)].value)
            /\ hashmap_get(Map, k, Len(k), FALSE, TRUE, NullBuf).ret
                  = IF NodesOf(Map, k) # {} THEN 1 ELSE 0
            /\ \E r \in {hashmap_remove(Map, k, Len(k))} :
                  /\ r.ret = IF NodesOf(Map, k) # {} THEN 1 ELSE 0
                  /\ Reachable(r.map) = Reachable(Map) \ NodesOf(Map, k)
                  /\ \A n \in Reachable(r.map) : Payload(r.map.heap[n]) = Payload(heap[n])
                  /\ \A n \in NodesOf(Map, k) : ~r.map.heap[n].live
            /\ \A v \in Values :
                  \E r \in {hashmap_insert(Map, k, Len(k), v, Len(v), TRUE, "none")} :
                     r.ret = 0 =>
                        /\ r.path = "update" <=> NodesOf(Map, k) # {}
                        /\ Cardinality(NodesOf(r.map, k)) = 1
                        /\ \A n \in NodesOf(r.map, k) : r.map.heap[n].value = v
                        /\ NodesOf(Map, k) \subseteq NodesOf(r.map, k)
                        /\ \A n \in Reachable(Map) \ NodesOf(Map, k) :
                              /\ n \in Reachable(r.map)
                              /\ Payload(r.map.heap[n]) = Payload(heap[n])
                        /\ Reachable(r.map) = Reachable(Map) \cup NodesOf(r.map, k)

\* C15's case: a key and a key it is a prefix of are the two entries of one
\* chain, and a get has just found one of them.
C15_Witness ==
    /\ Initialized /\ last.op = "get" /\ last.ret = 1
    /\ \E i \in 0 .. capacity - 1 :
          /\ Len(Chain(Map, i)) = 2
          /\ {heap[Chain(Map, i)[j]].key : j \in 1 .. 2} = {<<1>>, <<1, 2>>}

\* C16: a destroy of an initialized Map walks as many chain positions as
\* there are entries, each entry once, and leaves every node released, no
\* bucket array, capacity 0, size 0 and no hasher or equality; a destroy of
\* a Map without bucket array (zeroed, or destroyed before) changes
\* nothing; after a successful initialize that follows a destroy the Map has
\* size 0, every get returns not-found and an insert succeeds.
C16_DestroyLifecycle ==
    [][/\ last'.op = "destroy" =>
             IF Initialized
             THEN /\ ChainTotal(Map, 0) = Cardinality({n \in Nodes : heap[n].live})
                  /\ Reachable(Map) = {n \in Nodes : heap[n].live}
                  /\ \A n \in Nodes : heap'[n] = FreeNode
                  /\ buckets' = NullBuf /\ capacity' = 0 /\ size' = 0
                  /\ hash_func' = "NULL" /\ eq_func' = "NULL"
                  /\ last'.path \in {"freed", "empty"}
             ELSE UNCHANGED mapvars /\ last'.path = "none"
       /\ (last.op = "destroy" /\ last'.op = "init" /\ last'.ret = 0) =>
             /\ buckets' # NullBuf /\ size' = 0
             /\ \A n \in Nodes : heap'[n] = FreeNode
             /\ \A k \in Keys :
                   /\ GetResults(MapNext, k) = {NotFound}
                   /\ \A v \in Values :
                         hashmap_insert(MapNext, k, Len(k), v, Len(v), TRUE, "none").ret = 0]_vars

\* C16's case: a destroy has just released the entries of an initialized Map.
C16_Witness ==
    /\ last.op = "destroy" /\ last.path = "freed"
    /\ buckets = NullBuf /\ capacity = 0
    /\ \A n \in Nodes : ~heap[n].live

\* The fraction f is greater than 0.
Positive(f) == f # NaN /\ f[1] > 0 /\ f[2] > 0

\* C17 (as claimed): a successful initialize with capacity 0 yields capacity
\* 16, with a load factor <= 0 the load factor 0.75, with no hasher or no
\* equality the default one, and always size 0 and empty buckets; and in
\* every state of an initialized Map capacity >= 1, load_factor > 0 and the
\* hasher and the equality are not null.
C17_InitDefaults ==
    [][/\ \A a \in InitArgsAny :
             hashmap_init(a[1], a[2], a[3], TRUE) =>
                /\ last'.ret = 0
                /\ a[1] = 0 => capacity' = 16
                /\ a[1] # 0 => capacity' = a[1]
                /\ (a[3] # NaN /\ a[3][1] <= 0) => load_factor' = <<3, 4>>
                /\ a[2] = "NULL" => hash_func' = "default_hash"
                /\ a[2] # "NULL" => hash_func' = a[2]
                /\ eq_func' = "default_eq"
                /\ size' = 0
                /\ buckets' = [i \in 1 .. capacity' |-> 0]
       /\ buckets' # NullBuf =>
             /\ capacity' >= 1
             /\ Positive(load_factor')
             /\ hash_func' # "NULL" /\ eq_func' # "NULL"]_vars

\* C18 (as claimed): an initialize whose bucket array cannot be allocated
\* returns -1 and leaves the Map as destroy leaves it: no bucket array,
\* capacity 0, size 0, no hasher and no equality; a destroy that follows
\* changes nothing.
C18_InitFailure ==
    [][/\ (last'.op = "init" /\ buckets' = NullBuf) =>
             /\ last'.ret = -1
             /\ capacity' = 0 /\ size' = 0
             /\ hash_func' = "NULL" /\ eq_func' = "NULL"
       /\ (last.op = "init" /\ last.ret = -1 /\ last'.op = "destroy") =>
             UNCHANGED mapvars]_vars

\* C19: on every step from an initialized Map to an initialized Map the
\* capacity does not decrease; a get and a remove leave it as it is, and an
\* insert leaves it as it is or makes it twice what it was.
C19_NoShrink ==
    [][(buckets # NullBuf /\ buckets' # NullBuf) =>
          /\ capacity' >= capacity
          /\ Len(buckets') = capacity'
          /\ last'.op \in {"get", "remove"} => capacity' = capacity
          /\ last'.op = "insert" => capacity' \in {capacity, 2 * capacity}
          /\ last'.op \in {"get", "remove", "insert"}]_vars

\* C19's case: a Map that has grown beyond the capacity it was initialized
\* with has been emptied by removals and keeps its capacity.
C19_Witness ==
    /\ Initialized /\ last.op = "remove" /\ last.ret = 1 /\ size = 0
    /\ capacity \notin {IF a[1] = 0 THEN DEFAULT_INITIAL_CAPACITY ELSE a[1] : a \in InitArgs}

\* The chain positions <<i, j>> of m at which node n stands.
PositionsOf(m, n) ==
    {p \in (0 .. m.capacity - 1) \X (1 .. MaxNodes + 1) :
        p[2] <= Len(Chain(m, p[1])) /\ Chain(m, p[1])[p[2]] = n}

\* C20: in an initialized Map every allocated node stands at exactly one
\* position of one chain, every chain ends (within as many nodes as there
\* are) without passing a node twice, and every node a chain passes is
\* allocated; a Map without bucket array owns no node.
C20_UniqueOwnership ==
    IF Initialized
    THEN /\ \A n \in Nodes :
               Cardinality(PositionsOf(Map, n)) = IF heap[n].live THEN 1 ELSE 0
         /\ \A i \in 0 .. capacity - 1 :
               /\ Len(Chain(Map, i)) <= MaxNodes
               /\ Chain(Map, i) = <<>> \/ heap[Chain(Map, i)[Len(Chain(Map, i))]].next = 0
               /\ \A j \in 1 .. Len(Chain(Map, i)) : heap[Chain(Map, i)[j]].live
    ELSE \A n \in Nodes : ~heap[n].live

\* C20's case: a remove has just released one of two entries; the other is
\* still in its chain.
C20_Witness ==
    /\ Initialized /\ last.op = "remove" /\ last.ret = 1 /\ size = 1
    /\ \E n1, n2 \in Nodes : heap[n1].live /\ ~heap[n2].live /\ heap[n2] = FreeNode

\* A call has ended by returning to its caller.
Returned == ~Running /\ Alive

\* C21 (as claimed): every call of insert, get, remove and destroy that has
\* been entered on an initialized Map, the resize of an insert included,
\* returns after finitely many steps.
C21_Termination == Running ~> Returned

\* C22 (as claimed): an insert made while the load factor is reached that
\* takes the update path doubles the capacity and leaves size as it is, and
\* one that fails has doubled the capacity.
C22_GrowthBeforeLookupAsStated ==
    [][(last'.op = "insert" /\ last'.path # "none" /\ LoadReached(Map)) =>
          /\ last'.path = "update" => (capacity' = 2 * capacity /\ size' = size)
          /\ last'.ret = -1 => capacity' = 2 * capacity]_vars

\* C22: at a state where the load factor is reached, what the grow step of
\* an insert does depends on the allocation of the new array alone, not on
\* the key being present nor on the allocations that follow: when the array
\* can be allocated the capacity is doubled, for a key that is present
\* (update path, size unchanged) as for one that is not, and also when the
\* insert then fails (size unchanged); when it cannot, the capacity stays
\* and the insert goes on.
C22_GrowthBeforeLookup ==
    (Initialized /\ LoadReached(Map)) =>
        \A k \in Keys, resize_ok \in BOOLEAN :
            \A fail \in AllocFailures(k) :
                \E r \in {hashmap_insert(Map, k, Len(k), <<7>>, 1, resize_ok, fail)} :
                    /\ r.grew = IF CallocBuckets(2 * capacity, resize_ok) # NullBuf
                                THEN "ok" ELSE "failed"
                    /\ r.map.capacity = IF r.grew = "ok" THEN 2 * capacity ELSE capacity
                    /\ Len(r.map.buckets) = r.map.capacity
                    /\ r.path = "update" <=> Lookup(Map, k) # 0
                    /\ r.path = "update" => r.map.size = size
                    /\ r.ret = -1 <=> (fail # "none" \/ (r.path = "new" /\ MallocNode(heap) = 0))
                    /\ r.ret = -1 => r.map.size = size
                    /\ r.ret = 0 => r.map.size = size + (IF r.path = "new" THEN 1 ELSE 0)

\* C22's case: an insert of a key that was present, made at a reached load
\* factor, has doubled the capacity and updated the value.
C22_Witness ==
    /\ Initialized /\ last.op = "insert" /\ last.ret = 0
    /\ last.path = "update" /\ last.grew = "ok"
    /\ size = 1 /\ capacity = 2

====
